---- MODULE Spec2Model ----
(***************************************************************************)
(* Excel-Analyzer: the analysis pipeline of src/app.py and the step        *)
(* evaluators of src/modules/formula_translator.py.                        *)
(*                                                                         *)
(* A value of a cell is a record [k, n, d, s]:                             *)
(*   k = "null"  the null of a polars column                               *)
(*   k = "num"   the number n/d (d > 0: finite, in lowest terms;            *)
(*               d = 0: n = 1 is +inf, n = -1 is -inf, n = 0 is NaN)       *)
(*   k = "str"   the text s                                                *)
(* A table (polars DataFrame) is [cols, dtype, data]: the ordered column   *)
(* names, each column's dtype ("num", "str" or "null") and each column's   *)
(* values, one per row.                                                    *)
(***************************************************************************)
EXTENDS Integers, Sequences, FiniteSets, TLC

\* ------------------------------------------------------------------ bounds
\* longest pipeline the user builds
MaxSteps == 2
\* most rows of a table a single step is applied to
MaxRows == 2

\* ------------------------------------------------------------------ values
Null == [k |-> "null", n |-> 0, d |-> 1, s |-> ""]
Str(t) == [k |-> "str", n |-> 0, d |-> 1, s |-> t]

Abs(x) == IF x < 0 THEN -x ELSE x
Sign(x) == IF x < 0 THEN -1 ELSE IF x > 0 THEN 1 ELSE 0

RECURSIVE Gcd(_, _)
Gcd(a, b) == IF b = 0 THEN a ELSE Gcd(b, a % b)

\* the number n/d in normal form; a zero denominator is an IEEE special
Num(n, d) ==
    IF d = 0 THEN [k |-> "num", n |-> Sign(n), d |-> 0, s |-> ""]
    ELSE LET g == Gcd(Abs(n), Abs(d))
         IN  [k |-> "num", n |-> Sign(d) * (n \div g), d |-> Abs(d) \div g, s |-> ""]

Int2Num(i) == Num(i, 1)

IsNull(v) == v.k = "null"
IsNaN(v) == v.k = "num" /\ v.d = 0 /\ v.n = 0

\* float addition on the extended rationals
NumAdd(x, y) ==
    IF x.d = 0 /\ y.d = 0
    THEN (IF x.n = y.n THEN x ELSE Num(0, 0))
    ELSE Num(x.n * y.d + y.n * x.d, x.d * y.d)

NumNeg(x) == Num(-x.n, x.d)
NumSub(x, y) == NumAdd(x, NumNeg(y))
NumMul(x, y) == Num(x.n * y.n, x.d * y.d)
NumDiv(x, y) == NumMul(x, Num(y.d, y.n))

\* -1, 0 or 1 for an infinite or finite number
Side(x) == IF x.d = 0 THEN x.n ELSE 0

\* polars' total order on floats: NaN equals NaN and is above every number
NumLt(x, y) ==
    IF IsNaN(x) THEN FALSE
    ELSE IF IsNaN(y) THEN TRUE
    ELSE IF Side(x) # Side(y) THEN Side(x) < Side(y)
    ELSE IF x.d = 0 THEN FALSE
    ELSE x.n * y.d < y.n * x.d

\* the texts of the model, in lexicographic order
Texts ==
    <<"", "0", "0.0", "1", "1.0", "2", "2.0", "5", "5.0",
      "a", "b", "c", "high", "inf", "low", "x">>

TextRank(t) == CHOOSE i \in 1..Len(Texts) : Texts[i] = t

StrLt(a, b) == TextRank(a) < TextRank(b)

\* v < w for two non-null values of the same kind
ValLt(v, w) == IF v.k = "num" THEN NumLt(v, w) ELSE StrLt(v.s, w.s)

\* ------------------------------------------------------------------ tables
\* the indices among 1..n at which a sequence of booleans is TRUE, in order
RECURSIVE TrueIdx(_, _)
TrueIdx(flags, n) ==
    IF n = 0 THEN <<>>
    ELSE IF flags[n] THEN Append(TrueIdx(flags, n - 1), n) ELSE TrueIdx(flags, n - 1)

Range(f) == {f[i] : i \in DOMAIN f}
HasDuplicates(names) == Cardinality(Range(names)) # Len(names)

\* DataFrame.height
Height(df) == IF df.cols = <<>> THEN 0 ELSE Len(df.data[df.cols[1]])
\* name in DataFrame.columns
HasCol(df, c) == c \in Range(df.cols)

\* DataFrame.with_columns(expr.alias(name)): replaces the column of that name
\* in place, or appends a new last column
WithColumn(df, name, dt, vals) ==
    [cols  |-> IF HasCol(df, name) THEN df.cols ELSE Append(df.cols, name),
     dtype |-> [c \in Range(df.cols) \cup {name} |-> IF c = name THEN dt ELSE df.dtype[c]],
     data  |-> [c \in Range(df.cols) \cup {name} |-> IF c = name THEN vals ELSE df.data[c]]]

\* DataFrame.select([names]) raises on a missing or a repeated name
SelectError(df, names) ==
    IF \E i \in 1..Len(names) : ~HasCol(df, names[i]) THEN "ColumnNotFoundError"
    ELSE IF HasDuplicates(names) THEN "DuplicateError"
    ELSE ""

Select(df, names) ==
    [cols  |-> names,
     dtype |-> [c \in Range(names) |-> df.dtype[c]],
     data  |-> [c \in Range(names) |-> df.data[c]]]

\* DataFrame.rename({old: new}) raises when old is no column or new is
\* another column's name
RenameError(df, old, new) ==
    IF ~HasCol(df, old) THEN "ColumnNotFoundError"
    ELSE IF new # old /\ HasCol(df, new) THEN "DuplicateError"
    ELSE ""

Rename(df, old, new) ==
    LET nm(c) == IF c = old THEN new ELSE c
        back(c) == IF c = new THEN old ELSE c
    IN  [cols  |-> [i \in 1..Len(df.cols) |-> nm(df.cols[i])],
         dtype |-> [c \in {nm(x) : x \in Range(df.cols)} |-> df.dtype[back(c)]],
         data  |-> [c \in {nm(x) : x \in Range(df.cols)} |-> df.data[back(c)]]]

\* the name a right-hand column gets in a join's result: polars adds the
\* suffix "_right" to a right-hand column whose name the left table has
JoinedName(left, c) == IF HasCol(left, c) THEN c \o "_right" ELSE c

\* the rows of the right table whose key equals the key of left row i, in
\* the right table's order; a null key matches nothing
Matches(left, right, left_on, right_on, i) ==
    LET key == left.data[left_on][i]
        hit == [j \in 1..Height(right) |-> ~IsNull(key) /\ right.data[right_on][j] = key]
    IN  TrueIdx(hit, Height(right))

\* a join that pairs each left row with its first matching right row only
RECURSIVE JoinPairsFirst(_, _, _, _, _)
JoinPairsFirst(left, right, left_on, right_on, n) ==
    IF n = 0 THEN <<>>
    ELSE LET m == Matches(left, right, left_on, right_on, n)
         IN  Append(JoinPairsFirst(left, right, left_on, right_on, n - 1),
                    <<n, IF m = <<>> THEN 0 ELSE m[1]>>)

\* the (left row, right row) pairs of a left join, in the left table's
\* order: one pair per matching right row, <<i, 0>> when none matches
RECURSIVE JoinPairs(_, _, _, _, _)
JoinPairs(left, right, left_on, right_on, n) ==
    IF n = 0 THEN <<>>
    ELSE LET m == Matches(left, right, left_on, right_on, n)
             own == IF m = <<>> THEN << <<n, 0>> >>
                    ELSE [p \in 1..Len(m) |-> <<n, m[p]>>]
         IN  JoinPairs(left, right, left_on, right_on, n - 1) \o own

\* DataFrame.join(..., how='left') raises on a missing key column, on keys
\* of different dtypes, and on a result with two columns of one name
JoinError(left, right, left_on, right_on) ==
    IF ~HasCol(left, left_on) \/ ~HasCol(right, right_on) THEN "ColumnNotFoundError"
    ELSE IF {left.dtype[left_on], right.dtype[right_on]} = {"num", "str"}
         THEN "SchemaError"
    ELSE IF \E c \in Range(right.cols) \ {right_on} :
                HasCol(left, c) /\ HasCol(left, c \o "_right")
         THEN "DuplicateError"
    ELSE ""

\* the columns of a table but column c, in order
OtherCols(df, c) ==
    LET keep == TrueIdx([i \in 1..Len(df.cols) |-> df.cols[i] # c], Len(df.cols))
    IN  [i \in 1..Len(keep) |-> df.cols[keep[i]]]

\* the table of a left join: every left column, then the right columns rcols
\* under the names the join gives them, one row per pair
Joined(left, right, rcols, pairs) ==
    LET rname == [i \in 1..Len(rcols) |-> JoinedName(left, rcols[i])]
        src(c) == rcols[CHOOSE i \in 1..Len(rcols) : rname[i] = c]
    IN  [cols  |-> left.cols \o rname,
         dtype |-> [c \in Range(left.cols) \cup Range(rname) |->
                     IF HasCol(left, c) THEN left.dtype[c] ELSE right.dtype[src(c)]],
         data  |-> [c \in Range(left.cols) \cup Range(rname) |->
                     [p \in 1..Len(pairs) |->
                        IF HasCol(left, c) THEN left.data[c][pairs[p][1]]
                        ELSE IF pairs[p][2] = 0 THEN Null
                        ELSE right.data[src(c)][pairs[p][2]]]]]

\* DataFrame.join(right, left_on, right_on, how='left'): the right table's
\* key column is not kept
JoinLeft(left, right, left_on, right_on) ==
    Joined(left, right, OtherCols(right, right_on),
           JoinPairs(left, right, left_on, right_on, Height(left)))

\* A polars call either gives a table or raises: [exc, df] with exc = "" for
\* a table.  A call on the result of a call that raised does not happen.
NoTable == [cols |-> <<>>, dtype |-> <<>>, data |-> <<>>]
Ok(df) == [exc |-> "", df |-> df]
Failed(exc) == [exc |-> exc, df |-> NoTable]

TrySelect(df, names) ==
    IF SelectError(df, names) # "" THEN Failed(SelectError(df, names))
    ELSE Ok(Select(df, names))

TryJoinLeft(left, right, left_on, right_on) ==
    IF right.exc # "" THEN right
    ELSE IF JoinError(left, right.df, left_on, right_on) # ""
    THEN Failed(JoinError(left, right.df, left_on, right_on))
    ELSE Ok(JoinLeft(left, right.df, left_on, right_on))

TryRename(tried, old, new) ==
    IF tried.exc # "" THEN tried
    ELSE IF RenameError(tried.df, old, new) # ""
    THEN Failed(RenameError(tried.df, old, new))
    ELSE Ok(Rename(tried.df, old, new))

\* ------------------------------------------------------------------ steps
\* One analysis definition (a dict of st.session_state.analysis_definitions)
\* is a record of every key the evaluators read.  A text key that is absent,
\* None or '' is ""; a row number that is absent or None is 0 (the code
\* tests both by truthiness).
BlankStep ==
    [new_col_name |-> "", operation_type |-> "CONDITIONAL_AGG",
     lookup_df_name |-> "", left_on |-> "", right_on |-> "", value_col |-> "",
     first_col |-> "", operator |-> "", second_col |-> "",
     if_col |-> "", if_operator |-> "", if_compare_type |-> "Absolute Value",
     if_value |-> "", if_compare_col |-> "",
     value_if_true |-> "", value_if_false |-> "",
     cond_agg_if_col |-> "", cond_agg_operator |-> "",
     cond_agg_compare_type |-> "Absolute Value", cond_agg_value |-> "",
     cond_agg_compare_col |-> "", cond_agg_function |-> "",
     cond_agg_calc_col |-> "", output_start_row |-> 0, output_end_row |-> 0,
     output_target_col |-> ""]

\* what an evaluator does: returns df, raises exc, or reports msg through
\* st.error and returns df
Return(df) == [df |-> df, exc |-> "", msg |-> ""]
Raise(df, exc) == [df |-> df, exc |-> exc, msg |-> ""]
Report(df, msg) == [df |-> df, exc |-> "", msg |-> msg]

\* the texts float() parses, and the float of each
FloatTexts == {"0", "1", "2", "5", "inf"}

ParseFloat(t) ==
    CASE t = "0" -> Int2Num(0)
      [] t = "1" -> Int2Num(1)
      [] t = "2" -> Int2Num(2)
      [] t = "5" -> Int2Num(5)
      [] t = "inf" -> Num(1, 0)

\* _attempt_cast: the float of a text float() parses, else the text itself
attempt_cast(value_str) ==
    IF value_str \in FloatTexts THEN ParseFloat(value_str) ELSE Str(value_str)

\* the text polars casts a float literal to
ReprFloat(v) ==
    LET t == CHOOSE u \in FloatTexts : ParseFloat(u) = v
    IN  IF t = "inf" THEN t ELSE t \o ".0"

\* the dtype of pl.lit(v)
LitType(v) == v.k

\* the common dtype polars gives two branches of when/then/otherwise
Supertype(a, b) ==
    IF a = b THEN a
    ELSE IF a = "null" THEN b
    ELSE IF b = "null" THEN a
    ELSE "str"

\* a value cast to dtype dt
CastTo(v, dt) == IF dt = "str" /\ v.k = "num" THEN Str(ReprFloat(v)) ELSE v

Operators == {"==", "!=", ">", "<", ">=", "<="}

\* a op b for two non-null values of one kind
Holds(op, a, b) ==
    CASE op = "==" -> a = b
      [] op = "!=" -> a # b
      [] op = ">"  -> ValLt(b, a)
      [] op = "<"  -> ValLt(a, b)
      [] op = ">=" -> ~ValLt(a, b)
      [] op = "<=" -> ~ValLt(b, a)

\* The condition both apply_if_condition and apply_conditional_agg build:
\* column col compared by op with the cast literal value ('Absolute Value')
\* or with column compare_col.  exc is the exception raised (an unsupported
\* operator when the condition is built; a missing column or a comparison of
\* a number with a text when polars evaluates it); mask holds "T", "F" or,
\* where either side is null, "N" for every row.
Condition(df, col, op, compare_type, value, compare_col) ==
    LET lit == attempt_cast(value)
        byValue == compare_type = "Absolute Value"
        rhsType == IF byValue THEN LitType(lit) ELSE df.dtype[compare_col]
        rhs(i) == IF byValue THEN lit ELSE df.data[compare_col][i]
        cell(i) ==
            LET a == df.data[col][i]
            IN  IF IsNull(a) \/ IsNull(rhs(i)) THEN "N"
                ELSE IF Holds(op, a, rhs(i)) THEN "T" ELSE "F"
    IN  IF op \notin Operators THEN [exc |-> "ValueError", mask |-> <<>>]
        ELSE IF ~HasCol(df, col) \/ (~byValue /\ ~HasCol(df, compare_col))
             THEN [exc |-> "ColumnNotFoundError", mask |-> <<>>]
        ELSE IF {df.dtype[col], rhsType} = {"num", "str"}
             THEN [exc |-> "ComputeError", mask |-> <<>>]
        ELSE [exc |-> "", mask |-> [i \in 1..Height(df) |-> cell(i)]]

\* the rows of df a condition's mask keeps (DataFrame.filter drops the rows
\* where the condition is false or null)
FilterRows(df, mask) == TrueIdx([i \in 1..Height(df) |-> mask[i] = "T"], Height(df))

\* ------------------------------------------------------------------ evaluators
\* what an evaluator answers for a chain of polars calls: the exception the
\* chain raised, or its table
Outcome(main_df, tried) ==
    IF tried.exc # "" THEN Raise(main_df, tried.exc) ELSE Return(tried.df)

\* apply_vlookup: select the key and the value column of the lookup table,
\* left-join it to main_df, rename value_col to new_col_name
apply_vlookup(main_df, analysis_def, all_dfs) ==
    IF analysis_def.lookup_df_name \notin DOMAIN all_dfs THEN Raise(main_df, "KeyError")
    ELSE Outcome(main_df,
            TryRename(
                TryJoinLeft(main_df,
                    TrySelect(all_dfs[analysis_def.lookup_df_name],
                              <<analysis_def.right_on, analysis_def.value_col>>),
                    analysis_def.left_on, analysis_def.right_on),
                analysis_def.value_col, analysis_def.new_col_name))

\* pl.col(c).cast(pl.Float64, strict=False): a text that is no number
\* becomes null
CastFloat(v) ==
    IF v.k = "str" THEN (IF v.s \in FloatTexts THEN ParseFloat(v.s) ELSE Null) ELSE v

\* col1 op col2 of one row, null when either is null
Arith(op, x, y) ==
    IF IsNull(x) \/ IsNull(y) THEN Null
    ELSE CASE op = "+" -> NumAdd(x, y)
           [] op = "-" -> NumSub(x, y)
           [] op = "*" -> NumMul(x, y)
           [] op = "/" -> NumDiv(x, y)

\* apply_math: first_col (+, -, *, /) second_col, row by row, on floats
apply_math(main_df, analysis_def) ==
    IF analysis_def.operator \notin {"+", "-", "*", "/"} THEN Raise(main_df, "ValueError")
    ELSE IF ~HasCol(main_df, analysis_def.first_col)
            \/ ~HasCol(main_df, analysis_def.second_col)
    THEN Raise(main_df, "ColumnNotFoundError")
    ELSE Return(WithColumn(main_df, analysis_def.new_col_name, "num",
             [i \in 1..Height(main_df) |->
                Arith(analysis_def.operator,
                      CastFloat(main_df.data[analysis_def.first_col][i]),
                      CastFloat(main_df.data[analysis_def.second_col][i]))]))

\* pl.when(condition).then(pl.lit(true_val)).otherwise(pl.lit(false_val)):
\* the otherwise value wherever the condition is false or null
WhenThenOtherwise(main_df, new_col_name, cond, true_val, false_val, dt) ==
    IF cond.exc # "" THEN Raise(main_df, cond.exc)
    ELSE Return(WithColumn(main_df, new_col_name, dt,
             [i \in 1..Height(main_df) |->
                IF cond.mask[i] = "T" THEN CastTo(true_val, dt)
                ELSE CastTo(false_val, dt)]))

\* apply_if_condition: value_if_true where the condition holds,
\* value_if_false where it does not
apply_if_condition(main_df, analysis_def) ==
    WhenThenOtherwise(main_df, analysis_def.new_col_name,
        Condition(main_df, analysis_def.if_col, analysis_def.if_operator,
                  analysis_def.if_compare_type, analysis_def.if_value,
                  analysis_def.if_compare_col),
        attempt_cast(analysis_def.value_if_true),
        attempt_cast(analysis_def.value_if_false),
        Supertype(LitType(attempt_cast(analysis_def.value_if_true)),
                  LitType(attempt_cast(analysis_def.value_if_false))))

\* the sum of the numbers vals[1..n]
RECURSIVE SumVals(_, _)
SumVals(vals, n) == IF n = 0 THEN Int2Num(0) ELSE NumAdd(SumVals(vals, n - 1), vals[n])

\* the least (greatest when max is TRUE) of the values vals[1..n], n >= 1
RECURSIVE Extreme(_, _, _)
Extreme(vals, n, max) ==
    IF n <= 1 THEN vals[1]
    ELSE IF max
    THEN (IF ValLt(Extreme(vals, n - 1, max), vals[n]) THEN vals[n]
          ELSE Extreme(vals, n - 1, max))
    ELSE (IF ValLt(vals[n], Extreme(vals, n - 1, max)) THEN vals[n]
          ELSE Extreme(vals, n - 1, max))

\* the values of a sequence that are not null, in order
NonNull(all) ==
    LET some == TrueIdx([p \in 1..Len(all) |-> ~IsNull(all[p])], Len(all))
    IN  [q \in 1..Len(some) |-> all[some[q]]]

\* calc_col.sum() / mean() / min() / max() of the filtered rows: polars'
\* reductions skip nulls; a sum or mean of a text column raises
Reduce(agg_func, dt, vals) ==
    IF agg_func \in {"Sum", "Average"} /\ dt = "str"
    THEN [exc |-> "InvalidOperationError", msg |-> "", value |-> Null]
    ELSE [exc |-> "", msg |-> "", value |->
            IF agg_func = "Sum"
            THEN (IF dt = "null" THEN Null ELSE SumVals(vals, Len(vals)))
            ELSE IF Len(vals) = 0 THEN Null
            ELSE IF agg_func = "Average"
            THEN NumDiv(SumVals(vals, Len(vals)), Int2Num(Len(vals)))
            ELSE Extreme(vals, Len(vals), agg_func = "Max")]

\* an aggregation without the default of 0 for no filtered row
AggregateNoDefault(main_df, rows, agg_func, calc_col_name) ==
    IF agg_func = "Count"
    THEN [exc |-> "", msg |-> "", value |-> Int2Num(Len(rows))]
    ELSE IF calc_col_name = ""
    THEN [exc |-> "", msg |-> "you must select a column to calculate on",
          value |-> Null]
    ELSE Reduce(agg_func, main_df.dtype[calc_col_name],
                NonNull([p \in 1..Len(rows) |-> main_df.data[calc_col_name][rows[p]]]))

\* Step 3 of apply_conditional_agg: result_value over the filtered rows
Aggregate(main_df, rows, agg_func, calc_col_name) ==
    IF Len(rows) = 0 THEN [exc |-> "", msg |-> "", value |-> Int2Num(0)]
    ELSE IF agg_func = "Count"
    THEN [exc |-> "", msg |-> "", value |-> Int2Num(Len(rows))]
    ELSE IF calc_col_name = ""
    THEN [exc |-> "", msg |-> "you must select a column to calculate on",
          value |-> Null]
    ELSE IF agg_func \notin {"Sum", "Average", "Min", "Max"}
    THEN [exc |-> "", msg |-> "", value |-> Int2Num(0)]
    ELSE IF ~HasCol(main_df, calc_col_name)
    THEN [exc |-> "ColumnNotFoundError", msg |-> "", value |-> Null]
    ELSE Reduce(agg_func, main_df.dtype[calc_col_name],
                NonNull([p \in 1..Len(rows) |-> main_df.data[calc_col_name][rows[p]]]))

\* the target column created with nulls if the table does not have it
EnsureCol(main_df, output_col_name) ==
    IF HasCol(main_df, output_col_name) THEN main_df
    ELSE WithColumn(main_df, output_col_name, "null",
                    [i \in 1..Height(main_df) |-> Null])

\* a write that takes start_idx and end_idx for 1-based row numbers
WriteRangeOneBased(df, output_col_name, start_idx, end_idx, result_value, dt) ==
    Return(WithColumn(df, output_col_name, dt,
        [i \in 1..Height(df) |->
            IF i >= start_idx /\ i <= end_idx
            THEN CastTo(result_value, dt)
            ELSE CastTo(df.data[output_col_name][i], dt)]))

\* pl.when(mask).then(pl.lit(result_value)).otherwise(pl.col(output_col_name))
\* on the rows with 0-based index start_idx..end_idx
WriteRange(df, output_col_name, start_idx, end_idx, result_value, dt) ==
    Return(WithColumn(df, output_col_name, dt,
        [i \in 1..Height(df) |->
            IF i - 1 >= start_idx /\ i - 1 <= end_idx
            THEN CastTo(result_value, dt)
            ELSE CastTo(df.data[output_col_name][i], dt)]))

\* the dtype of the written column
RangeType(df, output_col_name, result_value) ==
    Supertype(LitType(result_value), df.dtype[output_col_name])

\* a placement that lets the row after the last one through its bounds check
PlaceOutputLateBound(main_df, analysis_def, result_value) ==
    LET start_row == analysis_def.output_start_row
        end_row == analysis_def.output_end_row
        target_col == analysis_def.output_target_col
        start_idx == start_row - 1
        end_idx == IF end_row # 0 THEN end_row - 1 ELSE start_idx
        output_col_name ==
            IF target_col # "" THEN target_col ELSE analysis_def.new_col_name
    IN  IF start_row = 0
        THEN Return(WithColumn(main_df, analysis_def.new_col_name,
                               LitType(result_value),
                               [i \in 1..Height(main_df) |-> result_value]))
        ELSE IF start_idx > Height(main_df)
        THEN Report(main_df, "Start row is beyond the end of the table")
        ELSE WriteRange(EnsureCol(main_df, output_col_name), output_col_name,
                        start_idx, end_idx, result_value,
                        RangeType(EnsureCol(main_df, output_col_name),
                                  output_col_name, result_value))

\* Step 4 of apply_conditional_agg: result_value broadcast to column
\* new_col_name, or written to rows start_row..end_row of the target column
PlaceOutput(main_df, analysis_def, result_value) ==
    LET start_row == analysis_def.output_start_row
        end_row == analysis_def.output_end_row
        target_col == analysis_def.output_target_col
        start_idx == start_row - 1
        end_idx == IF end_row # 0 THEN end_row - 1 ELSE start_idx
        output_col_name ==
            IF target_col # "" THEN target_col ELSE analysis_def.new_col_name
    IN  IF start_row = 0
        THEN Return(WithColumn(main_df, analysis_def.new_col_name,
                               LitType(result_value),
                               [i \in 1..Height(main_df) |-> result_value]))
        ELSE IF start_idx >= Height(main_df)
        THEN Report(main_df, "Start row is beyond the end of the table")
        ELSE WriteRange(EnsureCol(main_df, output_col_name), output_col_name,
                        start_idx, end_idx, result_value,
                        RangeType(EnsureCol(main_df, output_col_name),
                                  output_col_name, result_value))

\* Steps 3 and 4 of apply_conditional_agg, after the aggregation
Aggregated(main_df, analysis_def, agg) ==
    IF agg.exc # "" THEN Raise(main_df, agg.exc)
    ELSE IF agg.msg # "" THEN Report(main_df, agg.msg)
    ELSE PlaceOutput(main_df, analysis_def, agg.value)

\* Steps 2 to 4 of apply_conditional_agg, after the condition is built
Filtered(main_df, analysis_def, cond) ==
    IF cond.exc # "" THEN Raise(main_df, cond.exc)
    ELSE Aggregated(main_df, analysis_def,
             Aggregate(main_df, FilterRows(main_df, cond.mask),
                       analysis_def.cond_agg_function,
                       analysis_def.cond_agg_calc_col))

\* apply_conditional_agg: filter by the condition, aggregate, place
apply_conditional_agg(main_df, analysis_def) ==
    Filtered(main_df, analysis_def,
        Condition(main_df, analysis_def.cond_agg_if_col,
                  analysis_def.cond_agg_operator,
                  analysis_def.cond_agg_compare_type,
                  analysis_def.cond_agg_value,
                  analysis_def.cond_agg_compare_col))

\* what apply_analysis answers: the table, whether it raised, the evaluator
\* it called, the exception it caught and the message it or the evaluator
\* gave st.error / st.warning
Answer(df, called, exc, msg) ==
    [df |-> df, raised |-> FALSE, called |-> called, exc |-> exc, msg |-> msg]

\* the try / except around the evaluators: every exception is caught,
\* reported and answered with main_df
Caught(main_df, op_type, r) ==
    IF r.exc # ""
    THEN Answer(main_df, op_type, r.exc, "An error occurred during the operation")
    ELSE Answer(r.df, op_type, "", r.msg)

\* the if / elif chain of apply_analysis: the evaluator of the operation
\* type, a warning for any other type
Dispatch(main_df, analysis_def, all_dfs) ==
    CASE analysis_def.operation_type = "VLOOKUP" ->
             apply_vlookup(main_df, analysis_def, all_dfs)
      [] analysis_def.operation_type = "MATH" ->
             apply_math(main_df, analysis_def)
      [] analysis_def.operation_type = "IF" ->
             apply_if_condition(main_df, analysis_def)
      [] analysis_def.operation_type = "CONDITIONAL_AGG" ->
             apply_conditional_agg(main_df, analysis_def)
      [] OTHER -> Report(main_df, "Operation is not yet implemented")

\* apply_analysis without its check of the name
apply_analysis_unnamed(main_df, analysis_def, all_dfs) ==
    Caught(main_df, analysis_def.operation_type,
           Dispatch(main_df, analysis_def, all_dfs))

\* apply_analysis: the router.  A missing name is reported before dispatch.
apply_analysis(main_df, analysis_def, all_dfs) ==
    IF analysis_def.new_col_name = ""
    THEN Answer(main_df, "", "", "Please provide a name")
    ELSE Caught(main_df, analysis_def.operation_type,
                Dispatch(main_df, analysis_def, all_dfs))

\* ------------------------------------------------------------------ the UI
\* the value of an optional session entry: <<>> is None, <<x>> is x
None == <<>>
Some(x) == <<x>>

\* st.selectbox(options, index=options.index(v) if v in options else 0):
\* v when it is an option, else the first option (None when there is none)
Selected(options, v) ==
    IF v \in Range(options) THEN v ELSE IF options = <<>> THEN "" ELSE options[1]

\* a list without the entries equal to c
RECURSIVE Without(_, _)
Without(list, c) ==
    IF list = <<>> THEN <<>>
    ELSE IF list[Len(list)] = c THEN Without(SubSeq(list, 1, Len(list) - 1), c)
    ELSE Append(Without(SubSeq(list, 1, Len(list) - 1), c), list[Len(list)])

\* render_vlookup_builder writes its four widgets' values into the dict
render_vlookup_builder(analysis_def, all_dfs, main_df_columns) ==
    LET selected_df_name == Selected(all_dfs.order, analysis_def.lookup_df_name)
        lookup_df_cols == all_dfs.tbl[selected_df_name].cols
    IN  [analysis_def EXCEPT
            !.left_on = Selected(main_df_columns, @),
            !.lookup_df_name = selected_df_name,
            !.right_on = Selected(lookup_df_cols, @),
            !.value_col = Selected(lookup_df_cols, @)]

\* render_math_builder
render_math_builder(analysis_def, main_df_columns) ==
    [analysis_def EXCEPT
        !.first_col = Selected(main_df_columns, @),
        !.operator = Selected(<<"+", "-", "*", "/">>, @),
        !.second_col = Selected(main_df_columns, @)]

\* render_if_builder: the literal's text input or, for 'Another Column', a
\* select box of the other columns
render_if_builder(analysis_def, main_df_columns) ==
    LET if_col == Selected(main_df_columns, analysis_def.if_col)
    IN  [analysis_def EXCEPT
            !.if_col = if_col,
            !.if_operator = Selected(<<"==", "!=", ">", "<", ">=", "<=">>, @),
            !.if_compare_col =
                IF analysis_def.if_compare_type = "Absolute Value" THEN @
                ELSE Selected(Without(main_df_columns, if_col), @)]

\* render_conditional_agg_builder: as render_if_builder for the condition;
\* the calc column is a select box unless the function is Count, which sets
\* it to None
render_conditional_agg_builder(analysis_def, main_df_columns) ==
    LET if_col == Selected(main_df_columns, analysis_def.cond_agg_if_col)
        func == Selected(<<"Sum", "Count", "Average", "Min", "Max">>,
                         analysis_def.cond_agg_function)
    IN  [analysis_def EXCEPT
            !.cond_agg_if_col = if_col,
            !.cond_agg_operator = Selected(<<"==", "!=", ">", "<", ">=", "<=">>, @),
            !.cond_agg_compare_col =
                IF analysis_def.cond_agg_compare_type = "Absolute Value" THEN @
                ELSE Selected(Without(main_df_columns, if_col), @),
            !.cond_agg_function = func,
            !.cond_agg_calc_col =
                IF func # "Count" THEN Selected(main_df_columns, @) ELSE "",
            !.output_target_col =
                IF analysis_def.output_start_row # 0
                THEN Selected(<<"">> \o main_df_columns, @) ELSE @]

\* render_operation_ui: the builder of the step's operation type
render_operation_ui(analysis_def, all_dfs, main_df_columns) ==
    CASE analysis_def.operation_type = "VLOOKUP" ->
             render_vlookup_builder(analysis_def, all_dfs, main_df_columns)
      [] analysis_def.operation_type = "MATH" ->
             render_math_builder(analysis_def, main_df_columns)
      [] analysis_def.operation_type = "IF" ->
             render_if_builder(analysis_def, main_df_columns)
      [] analysis_def.operation_type = "CONDITIONAL_AGG" ->
             render_conditional_agg_builder(analysis_def, main_df_columns)
      [] OTHER -> analysis_def

\* ------------------------------------------------------------------ data
NumCol(ints) == [i \in 1..Len(ints) |-> IF ints[i] < 0 THEN Null ELSE Int2Num(ints[i])]
StrCol(texts) == [i \in 1..Len(texts) |-> Str(texts[i])]

\* a worksheet with columns id, val (numbers; a negative entry is a blank)
MainSheet(id, val) ==
    [cols  |-> <<"id", "val">>,
     dtype |-> [c \in {"id", "val"} |-> "num"],
     data  |-> [c \in {"id", "val"} |-> IF c = "id" THEN NumCol(id) ELSE NumCol(val)]]

\* a worksheet with columns rid, name, val
RefSheet(rid, name, val) ==
    [cols  |-> <<"rid", "name", "val">>,
     dtype |-> [c \in {"rid", "name", "val"} |-> IF c = "name" THEN "str" ELSE "num"],
     data  |-> [c \in {"rid", "name", "val"} |->
                 IF c = "rid" THEN NumCol(rid)
                 ELSE IF c = "name" THEN StrCol(name) ELSE NumCol(val)]]

Workbook(main, ref) ==
    [order |-> <<"main", "ref">>, tbl |-> [n \in {"main", "ref"} |-> IF n = "main" THEN main ELSE ref]]

\* no workbook: load_excel_data returned None
NoWorkbook == [order |-> <<>>, tbl |-> <<>>]

\* the files the user can upload, by hash; "bad" is a file that does not load
Files == {"f1", "f2", "bad"}

\* load_excel_data: every sheet of the file as a table, None on any error
load_excel_data(file) ==
    CASE file = "f1" -> Workbook(MainSheet(<<1, 2>>, <<5, 2>>),
                                 RefSheet(<<2, 2>>, <<"b", "c">>, <<1, 1>>))
      [] file = "f2" -> Workbook(MainSheet(<<2>>, <<-1>>),
                                 RefSheet(<<2>>, <<"a">>, <<2>>))
      [] OTHER -> NoWorkbook

\* ------------------------------------------------------------------ the app
VARIABLES
    active_file_hash,      \* st.session_state.active_file_hash ("" is None)
    dataframes,            \* st.session_state.dataframes
    main_df_name,          \* st.session_state.main_df_name ("" is None)
    analysis_definitions,  \* st.session_state.analysis_definitions
    preview_df,            \* st.session_state.preview_df
    pc,                    \* "idle", or "run" inside the pipeline execution block
    temp_df,               \* the run's working table
    error_occured,         \* the run's flag
    next_step,             \* the run's loop index i + 1
    messages,              \* what the run wrote with st.error / st.success
    runlog,                \* the run's calls of apply_analysis, in order
    preview_failed,        \* whether a VLOOKUP, MATH or IF step failed in the run that assigned preview_df
    preview_src,           \* the file and the worksheet of the run that assigned the preview_df there is
    pending,               \* the widget whose value the user changed in the latest script run
    arg,                   \* the arguments of the latest call of apply_analysis
    ret                    \* what that call answered

vars ==
    <<active_file_hash, dataframes, main_df_name, analysis_definitions, preview_df,
      pc, temp_df, error_occured, next_step, messages, runlog, preview_failed,
      preview_src, pending, arg, ret>>

session == <<active_file_hash, dataframes, main_df_name, analysis_definitions, preview_df>>
run == <<pc, temp_df, error_occured, next_step, messages, runlog>>
call == <<arg, ret>>

\* the main area is shown: a main worksheet of a loaded workbook is selected
MainShown(dfs, name) == name # "" /\ dfs.order # <<>>

\* the loop over analysis_definitions of a script run: every step's widgets
\* write their values into its dict
Render(defs, dfs, name) ==
    IF ~MainShown(dfs, name) THEN defs
    ELSE [i \in 1..Len(defs) |-> render_operation_ui(defs[i], dfs, dfs.tbl[name].cols)]

\* ------------------------------------------------------------------ widgets
\* Every widget of the definition loop has the key analysis_<position>_<name>.
\* Streamlit identifies a widget by its key together with its arguments
\* (label, options, default value or index) and keeps the value the user
\* gave it for as long as that identity is registered; a script run that
\* st.rerun() ends does not drop the widgets it did not reach.  A widget
\* registered with another default starts from that default.  So the only
\* widget whose value can differ from its default is the one the user
\* changed in the latest script run: pending, a record of its position, its
\* key, the default and the options it is registered with, and its value.

\* whether the script renders the widget of key f for a definition
Rendered(analysis_def, f) ==
    CASE f = "new_col_name" -> TRUE
      [] f \in {"left_on", "lookup_df_name", "right_on", "value_col"} ->
             analysis_def.operation_type = "VLOOKUP"
      [] f \in {"first_col", "operator", "second_col"} ->
             analysis_def.operation_type = "MATH"
      [] f \in {"if_col", "if_operator", "if_compare_type", "value_if_true",
                "value_if_false"} ->
             analysis_def.operation_type = "IF"
      [] f = "if_value" ->
             /\ analysis_def.operation_type = "IF"
             /\ analysis_def.if_compare_type = "Absolute Value"
      [] f = "if_compare_col" ->
             /\ analysis_def.operation_type = "IF"
             /\ analysis_def.if_compare_type # "Absolute Value"
      [] f \in {"cond_agg_if_col", "cond_agg_operator", "cond_agg_compare_type",
                "cond_agg_function", "output_start_row", "output_end_row"} ->
             analysis_def.operation_type = "CONDITIONAL_AGG"
      [] f = "cond_agg_value" ->
             /\ analysis_def.operation_type = "CONDITIONAL_AGG"
             /\ analysis_def.cond_agg_compare_type = "Absolute Value"
      [] f = "cond_agg_compare_col" ->
             /\ analysis_def.operation_type = "CONDITIONAL_AGG"
             /\ analysis_def.cond_agg_compare_type # "Absolute Value"
      [] f = "cond_agg_calc_col" ->
             /\ analysis_def.operation_type = "CONDITIONAL_AGG"
             /\ analysis_def.cond_agg_function # "Count"
      [] f = "output_target_col" ->
             /\ analysis_def.operation_type = "CONDITIONAL_AGG"
             /\ analysis_def.output_start_row # 0
      [] OTHER -> FALSE

\* what the options of the widget of key f depend on: the options of some
\* select boxes come from the value of another key
OptionsOf(analysis_def, f) ==
    CASE f \in {"right_on", "value_col"} -> analysis_def.lookup_df_name
      [] f = "if_compare_col" -> analysis_def.if_col
      [] f = "cond_agg_compare_col" -> analysis_def.cond_agg_if_col
      [] OTHER -> ""

\* list.pop(i), for the 1-based i
Popped(list, i) == SubSeq(list, 1, i - 1) \o SubSeq(list, i + 1, Len(list))

\* the dicts the widgets read in the script run after pop(i): a step that
\* moved to the position of the changed widget registers that widget with
\* its own value as the default; where that is the default the changed
\* widget was registered with, the widget answers with the changed value
Reused(defs, i, w) ==
    IF w = None THEN defs
    ELSE IF w[1].pos < i \/ w[1].pos > Len(defs) THEN defs
    ELSE IF /\ Rendered(defs[w[1].pos], w[1].field)
            /\ defs[w[1].pos][w[1].field] = w[1].default
            /\ OptionsOf(defs[w[1].pos], w[1].field) = w[1].options
    THEN [defs EXCEPT ![w[1].pos][w[1].field] = w[1].value]
    ELSE defs

\* the steps a user sets up in the model
StepPool ==
    LET lookup == [BlankStep EXCEPT !.operation_type = "VLOOKUP", !.left_on = "id",
                                    !.lookup_df_name = "ref", !.right_on = "rid"]
        math == [BlankStep EXCEPT !.operation_type = "MATH", !.first_col = "id",
                                  !.operator = "+", !.second_col = "val"]
        cond == [BlankStep EXCEPT !.operation_type = "IF", !.if_col = "id",
                                  !.if_operator = ">", !.value_if_true = "high",
                                  !.value_if_false = "low", !.new_col_name = "cat"]
        agg == [BlankStep EXCEPT !.cond_agg_if_col = "id", !.cond_agg_operator = ">",
                                 !.cond_agg_value = "1", !.cond_agg_function = "Sum",
                                 !.cond_agg_calc_col = "val"]
    IN  { [lookup EXCEPT !.value_col = "name", !.new_col_name = "nm"],
          [lookup EXCEPT !.value_col = "rid", !.new_col_name = "nm"],
          [math EXCEPT !.new_col_name = "sum"],
          [cond EXCEPT !.if_value = ""],
          [agg EXCEPT !.new_col_name = "total"] }

Init ==
    /\ active_file_hash = ""
    /\ dataframes = NoWorkbook
    /\ main_df_name = ""
    /\ analysis_definitions = <<>>
    /\ preview_df = None
    /\ pc = "idle"
    /\ temp_df = NoTable
    /\ error_occured = FALSE
    /\ next_step = 1
    /\ messages = <<>>
    /\ runlog = <<>>
    /\ preview_failed = FALSE
    /\ preview_src = None
    /\ pending = None
    /\ arg = None
    /\ ret = None

\* a UI event reruns the script: the locals and the output of the script run
\* before are gone
FreshScript ==
    /\ temp_df' = NoTable
    /\ error_occured' = FALSE
    /\ next_step' = 1
    /\ messages' = <<>>
    /\ runlog' = <<>>
    /\ arg' = None
    /\ ret' = None

\* the sidebar: a file whose hash is not the active one is loaded and
\* replaces the session's workbook, steps and preview
Upload(file) ==
    /\ pc = "idle"
    /\ file # active_file_hash
    /\ LET loaded_dfs == load_excel_data(file)
       IN  /\ active_file_hash' = file
           /\ dataframes' = loaded_dfs
           /\ analysis_definitions' = <<>>
           /\ preview_df' = None
           /\ main_df_name' = IF loaded_dfs.order # <<>> THEN loaded_dfs.order[1] ELSE ""
    /\ FreshScript
    /\ pending' = None
    /\ preview_src' = None
    /\ UNCHANGED <<pc, preview_failed>>

\* a select box that keeps the preview when the main worksheet changes
SelectMainKeepPreview(selected_df_name) ==
    /\ pc = "idle"
    /\ MainShown(dataframes, main_df_name)
    /\ selected_df_name \in Range(dataframes.order)
    /\ main_df_name # selected_df_name
    /\ main_df_name' = selected_df_name
    /\ analysis_definitions' = Render(analysis_definitions, dataframes, selected_df_name)
    /\ FreshScript
    /\ pending' = None
    /\ UNCHANGED <<active_file_hash, dataframes, pc, preview_failed, preview_df,
                   preview_src>>

\* the sidebar's select box: another main worksheet drops the preview
SelectMain(selected_df_name) ==
    /\ pc = "idle"
    /\ MainShown(dataframes, main_df_name)
    /\ selected_df_name \in Range(dataframes.order)
    /\ main_df_name # selected_df_name
    /\ main_df_name' = selected_df_name
    /\ preview_df' = None
    /\ analysis_definitions' = Render(analysis_definitions, dataframes, selected_df_name)
    /\ FreshScript
    /\ pending' = None
    /\ preview_src' = None
    /\ UNCHANGED <<active_file_hash, dataframes, pc, preview_failed>>

\* the button 'Add New Analysis Step'
add_analysis_step ==
    /\ pc = "idle"
    /\ MainShown(dataframes, main_df_name)
    /\ Len(analysis_definitions) < MaxSteps
    /\ analysis_definitions' =
           Render(Append(analysis_definitions, BlankStep), dataframes, main_df_name)
    /\ FreshScript
    /\ pending' = None
    /\ UNCHANGED <<active_file_hash, dataframes, main_df_name, preview_df, pc,
                   preview_failed, preview_src>>

\* the widgets of step i: the user gives the step a name, an operation type
\* and that operation's parameters, each from what its widget offers; the
\* script has run again since the last of these changes, so every widget has
\* its value as its default
EditStep(i, def) ==
    /\ pc = "idle"
    /\ MainShown(dataframes, main_df_name)
    /\ i \in 1..Len(analysis_definitions)
    /\ def # analysis_definitions[i]
    /\ render_operation_ui(def, dataframes, dataframes.tbl[main_df_name].cols) = def
    /\ analysis_definitions' =
           Render([analysis_definitions EXCEPT ![i] = def], dataframes, main_df_name)
    /\ pending' = None
    /\ FreshScript
    /\ UNCHANGED <<active_file_hash, dataframes, main_df_name, preview_df, pc,
                   preview_failed, preview_src>>

\* the values the model's user gives one widget: key and value
WidgetChanges ==
    {<<"new_col_name", "a">>, <<"new_col_name", "b">>,
     <<"cond_agg_operator", ">">>, <<"cond_agg_function", "Count">>}

\* the user changes the widget of key f of step i to x: the script runs, the
\* widget, registered with the dict's value as its default, answers x, and
\* the script writes x into the dict
ChangeWidget(i, f, x) ==
    /\ pc = "idle"
    /\ MainShown(dataframes, main_df_name)
    /\ i \in 1..Len(analysis_definitions)
    /\ Rendered(analysis_definitions[i], f)
    /\ analysis_definitions[i][f] # x
    /\ IF pending = None THEN TRUE
       ELSE pending[1].pos # i \/ pending[1].field # f
    /\ analysis_definitions' =
           Render([analysis_definitions EXCEPT ![i][f] = x], dataframes, main_df_name)
    /\ pending' = Some([pos |-> i, field |-> f, default |-> analysis_definitions[i][f],
                        options |-> OptionsOf(analysis_definitions[i], f), value |-> x])
    /\ FreshScript
    /\ UNCHANGED <<active_file_hash, dataframes, main_df_name, preview_df, pc,
                   preview_failed, preview_src>>

\* the button 'Remove Step' of step i: pop(i) and st.rerun(), then the
\* script run in which the steps after i have the widgets of the position
\* before theirs
RemoveStep(i) ==
    /\ pc = "idle"
    /\ MainShown(dataframes, main_df_name)
    /\ i \in 1..Len(analysis_definitions)
    /\ analysis_definitions' =
           Render(Reused(Popped(analysis_definitions, i), i, pending),
                  dataframes, main_df_name)
    /\ pending' = None
    /\ FreshScript
    /\ UNCHANGED <<active_file_hash, dataframes, main_df_name, preview_df, pc,
                   preview_failed, preview_src>>

\* the button 'Generate Preview / Apply All Steps': the run starts on a
\* clone of the main worksheet
StartRun ==
    /\ pc = "idle"
    /\ MainShown(dataframes, main_df_name)
    /\ analysis_definitions # <<>>
    /\ pc' = "run"
    /\ temp_df' = dataframes.tbl[main_df_name]
    /\ error_occured' = FALSE
    /\ next_step' = 1
    /\ messages' = <<>>
    /\ runlog' = <<>>
    /\ arg' = None
    /\ ret' = None
    /\ pending' = None
    /\ UNCHANGED <<session, preview_failed, preview_src>>

\* what st.error / st.warning showed during a call of apply_analysis
Said(r) ==
    IF r.msg = "" THEN <<>>
    ELSE << [by |-> "apply_analysis", step |-> 0, name |-> "", text |-> r.msg] >>

\* the body of the run's loop for step_def, r being what apply_analysis did
Iterate(step_def, r) ==
    /\ arg' = Some([df |-> temp_df, def |-> step_def, dfs |-> dataframes.tbl])
    /\ ret' = Some(r)
    /\ runlog' = Append(runlog, [step |-> next_step, def |-> step_def,
                                 called |-> r.called, exc |-> r.exc, msg |-> r.msg])
    /\ IF r.raised
       THEN /\ messages' = Append(messages \o Said(r),
                              [by |-> "run", step |-> next_step,
                               name |-> step_def.new_col_name,
                               text |-> "Error in Step"])
            /\ error_occured' = TRUE
            /\ UNCHANGED temp_df
       ELSE /\ messages' = messages \o Said(r)
            /\ temp_df' = r.df
            /\ UNCHANGED error_occured

\* RunStep writing each step's table back into the session's workbook
RunStepInPlace ==
    /\ pc = "run"
    /\ ~error_occured
    /\ next_step <= Len(analysis_definitions)
    /\ Iterate(analysis_definitions[next_step],
               apply_analysis(temp_df, analysis_definitions[next_step], dataframes.tbl))
    /\ next_step' = next_step + 1
    /\ dataframes' = [dataframes EXCEPT !.tbl[main_df_name] = temp_df']
    /\ UNCHANGED <<active_file_hash, main_df_name, analysis_definitions, preview_df,
                   pc, preview_failed, preview_src, pending>>

\* RunStep applying each step to the main worksheet, not to temp_df
RunStepOnBase ==
    /\ pc = "run"
    /\ ~error_occured
    /\ next_step <= Len(analysis_definitions)
    /\ Iterate(analysis_definitions[next_step],
               apply_analysis(dataframes.tbl[main_df_name],
                              analysis_definitions[next_step], dataframes.tbl))
    /\ next_step' = next_step + 1
    /\ UNCHANGED <<session, pc, preview_failed, preview_src, pending>>

\* one iteration of the run's loop: apply step next_step to temp_df; an
\* exception of apply_analysis is reported with the step's number and name
\* and ends the loop
RunStep ==
    /\ pc = "run"
    /\ ~error_occured
    /\ next_step <= Len(analysis_definitions)
    /\ Iterate(analysis_definitions[next_step],
               apply_analysis(temp_df, analysis_definitions[next_step], dataframes.tbl))
    /\ next_step' = next_step + 1
    /\ UNCHANGED <<session, pc, preview_failed, preview_src, pending>>

\* an entry of runlog for a VLOOKUP, MATH or IF step whose evaluator raised
StepFailed(entry) ==
    /\ entry.def.operation_type \in {"VLOOKUP", "MATH", "IF"}
    /\ entry.exc # ""

\* after the loop: a run without an error stores its table as the preview
FinishRun ==
    /\ pc = "run"
    /\ error_occured \/ next_step > Len(analysis_definitions)
    /\ pc' = "idle"
    /\ IF ~error_occured
       THEN /\ preview_df' = Some(temp_df)
            /\ preview_failed' = (\E k \in 1..Len(runlog) : StepFailed(runlog[k]))
            /\ preview_src' = Some([file |-> active_file_hash, sheet |-> main_df_name])
            /\ messages' = Append(messages, [by |-> "run", step |-> 0, name |-> "",
                                             text |-> "completed successfully"])
       ELSE UNCHANGED <<preview_df, preview_failed, preview_src, messages>>
    /\ UNCHANGED <<active_file_hash, dataframes, main_df_name, analysis_definitions,
                   temp_df, error_occured, next_step, runlog, call, pending>>

Next ==
    \/ \E file \in Files : Upload(file)
    \/ \E name \in {"main", "ref"} : SelectMain(name)
    \/ add_analysis_step
    \/ \E i \in 1..MaxSteps, def \in StepPool : EditStep(i, def)
    \/ \E i \in 1..MaxSteps : RemoveStep(i)
    \/ StartRun
    \/ RunStep
    \/ FinishRun

Spec == Init /\ [][Next]_vars

\* ------------------------------------------------------------------ one step
\* The evaluators are functions of a table, a definition and the workbook:
\* SpecStep applies apply_analysis once to each of the inputs below.

\* the tables of up to MaxRows rows over these rows of (id, val)
StepRows == {<<1, 1>>, <<2, 2>>, <<2, -1>>, <<-1, 5>>}

StepTables ==
    UNION {{MainSheet([i \in 1..n |-> f[i][1]], [i \in 1..n |-> f[i][2]]) :
               f \in [1..n -> StepRows]} : n \in 0..MaxRows}

\* the lookup tables of up to MaxRows rows over these rows of (rid, name, val)
LookupRows == {<<1, "a", 5>>, <<1, "b", 2>>, <<2, "c", 1>>, <<-1, "x", 0>>}

LookupTables ==
    UNION {{RefSheet([i \in 1..n |-> f[i][1]], [i \in 1..n |-> f[i][2]],
                     [i \in 1..n |-> f[i][3]]) :
               f \in [1..n -> LookupRows]} : n \in 0..MaxRows}

LookupDefs ==
    {[BlankStep EXCEPT !.operation_type = "VLOOKUP", !.left_on = "id",
                       !.lookup_df_name = t, !.right_on = "rid", !.value_col = v,
                       !.new_col_name = o] :
        t \in {"ref"}, v \in {"name", "val", "rid"}, o \in {"name", "out", "val", "id"}}
    \cup
    {[BlankStep EXCEPT !.operation_type = "VLOOKUP", !.left_on = "id",
                       !.lookup_df_name = "gone", !.right_on = "rid",
                       !.value_col = "name", !.new_col_name = "out"],
     [BlankStep EXCEPT !.operation_type = "VLOOKUP", !.left_on = "id",
                       !.lookup_df_name = "ref", !.right_on = "rid",
                       !.value_col = "name", !.new_col_name = ""]}

\* where a conditional aggregation writes: start row, end row, target, name
Placements ==
    {<<0, 0, "", o>> : o \in {"total", "val", ""}}
    \cup {<<s, e, t, "total">> :
            s \in 1..(MaxRows + 1), e \in {0, 1, MaxRows}, t \in {"", "val", "out"}}

\* its condition: operator, compare type, value
AggConditions ==
    {<<"==", "Absolute Value", "1">>, <<">", "Absolute Value", "1">>,
     <<">", "Absolute Value", "5">>, <<">=", "Another Column", "">>,
     <<"=>", "Absolute Value", "1">>}

\* its function and calc column
AggFunctions ==
    {<<"Sum", "val">>, <<"Sum", "">>, <<"Count", "">>, <<"Average", "val">>,
     <<"Min", "val">>, <<"Max", "val">>, <<"Max", "">>}

AggDefs ==
    {[BlankStep EXCEPT !.cond_agg_if_col = "id", !.cond_agg_operator = c[1],
                       !.cond_agg_compare_type = c[2], !.cond_agg_value = c[3],
                       !.cond_agg_compare_col = "val",
                       !.cond_agg_function = f[1], !.cond_agg_calc_col = f[2],
                       !.output_start_row = p[1], !.output_end_row = p[2],
                       !.output_target_col = p[3], !.new_col_name = p[4]] :
        c \in AggConditions, f \in AggFunctions, p \in Placements}

OtherDefs ==
    {[BlankStep EXCEPT !.operation_type = "MATH", !.first_col = "id",
                       !.operator = o, !.second_col = "val", !.new_col_name = "m"] :
        o \in {"+", "/", "%"}}
    \cup
    {[BlankStep EXCEPT !.operation_type = "IF", !.if_col = "id", !.if_operator = ">",
                       !.if_compare_type = c[1], !.if_value = c[2],
                       !.if_compare_col = c[3], !.value_if_true = v[1],
                       !.value_if_false = v[2], !.new_col_name = o] :
        c \in {<<"Absolute Value", "1", "">>, <<"Absolute Value", "x", "">>,
                <<"Another Column", "", "val">>},
        v \in {<<"high", "low">>, <<"1", "0">>, <<"1", "x">>},
        o \in {"cat", "val"}}

\* a workbook with no row in its lookup table
EmptyRef == [n \in {"ref"} |-> RefSheet(<<>>, <<>>, <<>>)]

\* one call of apply_analysis
Call(df, def, dfs) ==
    /\ arg' = Some([df |-> df, def |-> def, dfs |-> dfs])
    /\ ret' = Some(apply_analysis(df, def, dfs))
    /\ UNCHANGED <<session, run, preview_failed, preview_src, pending>>

CallLookup ==
    /\ arg = None
    /\ \E t \in StepTables, d \in LookupDefs, l \in LookupTables :
          Call(t, d, [n \in {"ref"} |-> l])

CallOther ==
    /\ arg = None
    /\ \E t \in StepTables, d \in AggDefs \cup OtherDefs : Call(t, d, EmptyRef)

NextStep == CallLookup \/ CallOther

SpecStep == Init /\ [][NextStep]_vars

\* ------------------------------------------------------------------ the builder
\* The analysis builder alone: a workbook is uploaded, steps are added, their
\* widgets changed one at a time, and steps removed.
NextBuild ==
    \/ \E file \in Files : Upload(file)
    \/ add_analysis_step
    \/ \E i \in 1..MaxSteps, c \in WidgetChanges : ChangeWidget(i, c[1], c[2])
    \/ \E i \in 1..MaxSteps : RemoveStep(i)

SpecBuild == Init /\ [][NextBuild]_vars

\* ------------------------------------------------------------------ claims
\* the latest call of apply_analysis dispatched a step of this operation type
Dispatched(op_type) ==
    /\ ret # None
    /\ arg[1].def.operation_type = op_type
    /\ arg[1].def.new_col_name # ""

\* that call ended without an exception and without a reported error
Succeeded == ret[1].exc = "" /\ ret[1].msg = ""

\* C1: in a run, a VLOOKUP, MATH or IF step that fails is the last step
\* applied, the run is marked failed, and the failure is reported with that
\* step's 1-based index.
C1_FailedStepAbortsRun ==
    \A k \in 1..Len(runlog) :
        StepFailed(runlog[k]) =>
            /\ Len(runlog) = k
            /\ error_occured
            /\ \E m \in Range(messages) : m.by = "run" /\ m.step = k

\* C2: preview_df is assigned only by runs in which no VLOOKUP, MATH or IF
\* step failed.
C2_PreviewOnlyFromCleanRuns == preview_df # None => ~preview_failed

\* C3: a step without a name is answered with the error before dispatch: no
\* evaluator is called and the table given is returned as it is.
C3_NamelessStepFailsBeforeDispatch ==
    (ret # None /\ arg[1].def.new_col_name = "") =>
        /\ ret[1].called = ""
        /\ ret[1].msg = "Please provide a name"
        /\ ret[1].df = arg[1].df

\* a run applied a step without a name
C3_Witness ==
    /\ pc = "run"
    /\ ret # None
    /\ arg[1].def.new_col_name = ""
    /\ arg[1].def.operation_type = "CONDITIONAL_AGG"

\* C4: from the start of a run to its end, no table of the workbook (the
\* main worksheet among them) changes, and a step that fails leaves the
\* run's working table as it was.
C4_RunLeavesWorkbookUnchanged ==
    [][(pc = "run" \/ pc' = "run") =>
          /\ dataframes' = dataframes
          /\ (Len(runlog') > Len(runlog) /\ runlog'[Len(runlog')].exc # "") =>
                temp_df' = temp_df]_vars

\* a run has applied a step that changed its working table, and a step that
\* failed and left it as it was
C4_Witness ==
    /\ pc = "run"
    /\ Len(runlog) = 2
    /\ runlog[1].exc # ""
    /\ runlog[2].exc = ""
    /\ temp_df # dataframes.tbl[main_df_name]

\* the table, the definition and the lookup table of the latest call, and
\* the table it answered
T == arg[1].df
D == arg[1].def
L == arg[1].dfs["ref"]
R == ret[1].df

\* the number of rows of the lookup table whose key equals the key of row i
\* of the current table
MatchCount(i) ==
    Cardinality({j \in 1..Height(L) :
        /\ ~IsNull(T.data[D.left_on][i])
        /\ L.data[D.right_on][j] = T.data[D.left_on][i]})

RECURSIVE FanOut(_)
FanOut(n) ==
    IF n = 0 THEN 0
    ELSE FanOut(n - 1) + (IF MatchCount(n) = 0 THEN 1 ELSE MatchCount(n))

\* C5 as stated: a successful LOOKUP step returns as many rows as the
\* current table has, however many lookup rows match a key.
C5_LookupKeepsRowCount ==
    (Dispatched("VLOOKUP") /\ Succeeded) => Height(R) = Height(T)

\* C5: a successful LOOKUP step returns, for each row of the current table,
\* one row per lookup row matching its key and one row when none matches;
\* the row count is that of the current table when no key of it matches more
\* than one lookup row.
C5_LookupRowCountFollowsMatches ==
    (Dispatched("VLOOKUP") /\ Succeeded) =>
        /\ Height(R) = FanOut(Height(T))
        /\ (\A i \in 1..Height(T) : MatchCount(i) <= 1) => Height(R) = Height(T)

\* a successful lookup in which a key of the current table matches two rows
\* of the lookup table, and another key matches none
C5_Witness ==
    /\ Dispatched("VLOOKUP")
    /\ Succeeded
    /\ \E i \in 1..Height(T) : MatchCount(i) = 2
    /\ \E i \in 1..Height(T) : MatchCount(i) = 0

\* C6: after a successful LOOKUP step the result has a column output_name
\* holding, for each row, value_col of the matching lookup row (null when
\* none matches), and every column of the current table is still there under
\* its name with its values.
C6_LookupImportsValueCol ==
    (Dispatched("VLOOKUP") /\ Succeeded) =>
        LET pairs == JoinPairs(T, L, D.left_on, D.right_on, Height(T))
        IN  /\ HasCol(R, D.new_col_name)
            /\ \A c \in Range(T.cols) : HasCol(R, c)
            /\ Height(R) = Len(pairs)
            /\ \A p \in 1..Len(pairs) :
                  /\ HasCol(R, D.new_col_name) =>
                        R.data[D.new_col_name][p] =
                            IF pairs[p][2] = 0 THEN Null
                            ELSE L.data[D.value_col][pairs[p][2]]
                  /\ \A c \in Range(T.cols) \ {D.new_col_name} :
                        HasCol(R, c) => R.data[c][p] = T.data[c][pairs[p][1]]

\* C7: a CONDITIONAL_AGG step with a function other than Count and no
\* calc_col reports an error and returns the table it was given.
C7_MissingCalcColLeavesTable ==
    (Dispatched("CONDITIONAL_AGG") /\ D.cond_agg_function # "Count"
        /\ D.cond_agg_calc_col = "") =>
        /\ ret[1].exc # "" \/ ret[1].msg # ""
        /\ R = T

\* the rows of the current table that satisfy the step's condition
Satisfying ==
    LET cond == Condition(T, D.cond_agg_if_col, D.cond_agg_operator,
                          D.cond_agg_compare_type, D.cond_agg_value,
                          D.cond_agg_compare_col)
    IN  {i \in 1..Height(T) : cond.mask[i] = "T"}

\* those of them that have a value in calc_col
Valued == {i \in Satisfying : ~IsNull(T.data[D.cond_agg_calc_col][i])}

RECURSIVE SumOver(_)
SumOver(rows) ==
    IF rows = {} THEN Int2Num(0)
    ELSE LET i == CHOOSE x \in rows : TRUE
         IN  NumAdd(T.data[D.cond_agg_calc_col][i], SumOver(rows \ {i}))

\* the scalar of the step: the count of the satisfying rows, or the sum,
\* mean, least or greatest value of calc_col over them (rows without a value
\* are skipped, and there is no mean, least or greatest of no value); 0 when
\* no row satisfies the condition
Scalar ==
    IF Satisfying = {} THEN Int2Num(0)
    ELSE IF D.cond_agg_function = "Count" THEN Int2Num(Cardinality(Satisfying))
    ELSE IF D.cond_agg_function = "Sum" THEN SumOver(Valued)
    ELSE IF Valued = {} THEN Null
    ELSE IF D.cond_agg_function = "Average"
    THEN NumDiv(SumOver(Valued), Int2Num(Cardinality(Valued)))
    ELSE IF D.cond_agg_function = "Min"
    THEN T.data[D.cond_agg_calc_col][CHOOSE i \in Valued : \A j \in Valued :
            ~ValLt(T.data[D.cond_agg_calc_col][j], T.data[D.cond_agg_calc_col][i])]
    ELSE T.data[D.cond_agg_calc_col][CHOOSE i \in Valued : \A j \in Valued :
            ~ValLt(T.data[D.cond_agg_calc_col][i], T.data[D.cond_agg_calc_col][j])]

\* the result is the current table but for column c, which is new as the
\* last column or takes the place of the column of that name
OnlyColumnChanged(c) ==
    /\ R.cols = IF HasCol(T, c) THEN T.cols ELSE Append(T.cols, c)
    /\ Height(R) = Height(T)
    /\ \A x \in Range(T.cols) \ {c} :
          R.data[x] = T.data[x] /\ R.dtype[x] = T.dtype[x]

\* C8: a CONDITIONAL_AGG step without a start row gives the table it was
\* given with column new_col_name set to the scalar in every row; the other
\* columns and the row count are as before.
C8_BroadcastsScalar ==
    (Dispatched("CONDITIONAL_AGG") /\ Succeeded /\ D.output_start_row = 0) =>
        /\ OnlyColumnChanged(D.new_col_name)
        /\ \A i \in 1..Height(T) : R.data[D.new_col_name][i] = Scalar

\* a broadcast, to a new column, of the mean over two satisfying rows of
\* which one has no value
C8_Witness ==
    /\ Dispatched("CONDITIONAL_AGG")
    /\ Succeeded
    /\ D.output_start_row = 0
    /\ D.cond_agg_function = "Average"
    /\ Cardinality(Satisfying) = 2
    /\ Cardinality(Valued) = 1
    /\ ~HasCol(T, D.new_col_name)
    /\ R.data[D.new_col_name] = <<Int2Num(2), Int2Num(2)>>

\* the column a CONDITIONAL_AGG step with a start row writes to
TargetCol ==
    IF D.output_target_col # "" THEN D.output_target_col ELSE D.new_col_name

\* the last row it writes to
LastRow == IF D.output_end_row # 0 THEN D.output_end_row ELSE D.output_start_row

\* C9: a CONDITIONAL_AGG step with a start row s within the table writes
\* the scalar to the rows s..e of the target column (output_target_col, else
\* new_col_name; e the end row, else s); the other rows of that column keep
\* their value (null in a new column) and no other column changes.
C9_WritesRowRange ==
    (Dispatched("CONDITIONAL_AGG") /\ Succeeded
        /\ D.output_start_row >= 1 /\ D.output_start_row <= Height(T)) =>
        /\ OnlyColumnChanged(TargetCol)
        /\ \A i \in 1..Height(T) :
              R.data[TargetCol][i] =
                  IF i >= D.output_start_row /\ i <= LastRow THEN Scalar
                  ELSE IF HasCol(T, TargetCol) THEN T.data[TargetCol][i]
                  ELSE Null

\* a write, with no end row, to the second row only of a column the table
\* has: the first row keeps a value that is not the scalar
C9_Witness ==
    /\ Dispatched("CONDITIONAL_AGG")
    /\ Succeeded
    /\ Height(T) = 2
    /\ D.output_start_row = 2
    /\ D.output_end_row = 0
    /\ D.output_target_col = "val"
    /\ ~IsNull(T.data["val"][1])
    /\ T.data["val"][1] # Scalar
    /\ T.data["val"][2] # Scalar
    /\ R.data["val"] = <<T.data["val"][1], Scalar>>

\* the step's condition and aggregation are well formed
WellFormed ==
    /\ D.cond_agg_operator \in Operators
    /\ D.cond_agg_function = "Count" \/ D.cond_agg_calc_col # ""

\* C10: a CONDITIONAL_AGG step with a start row beyond the last row reports
\* an error, the out-of-bounds one unless its condition or aggregation failed
\* before, and returns the table it was given.
C10_StartRowBeyondTable ==
    (Dispatched("CONDITIONAL_AGG") /\ D.output_start_row > Height(T)) =>
        /\ R = T
        /\ ret[1].exc # "" \/ ret[1].msg # ""
        /\ WellFormed =>
              /\ ret[1].exc = ""
              /\ ret[1].msg = "Start row is beyond the end of the table"

\* the out-of-bounds error for the row after the last one of a table with
\* rows, for a target column the table does not have
C10_Witness ==
    /\ Dispatched("CONDITIONAL_AGG")
    /\ Height(T) >= 1
    /\ D.output_start_row = Height(T) + 1
    /\ ~HasCol(T, TargetCol)
    /\ ret[1].msg = "Start row is beyond the end of the table"
    /\ R = T

\* an entry of runlog for a step that succeeded: nothing raised, nothing
\* reported
Clean(entry) == entry.exc = "" /\ entry.msg = ""

\* C11: a run starts on the main worksheet; step k is the k-th call of
\* apply_analysis, on the table step k-1 left, and its answer is the working
\* table; a run in which every step succeeded has applied every step and
\* stores the last step's table as the preview.
C11_StepsAppliedInOrder ==
    [][/\ (pc = "idle" /\ pc' = "run") =>
             /\ temp_df' = dataframes.tbl[main_df_name]
             /\ runlog' = <<>>
       /\ (pc = "run" /\ pc' = "run") =>
             /\ Len(runlog) < Len(analysis_definitions)
             /\ Len(runlog') = Len(runlog) + 1
             /\ runlog'[Len(runlog')].step = Len(runlog')
             /\ runlog'[Len(runlog')].def = analysis_definitions[Len(runlog')]
             /\ arg'[1].df = temp_df
             /\ ret'[1] = apply_analysis(temp_df, analysis_definitions[Len(runlog')],
                                         dataframes.tbl)
             /\ temp_df' = ret'[1].df
       /\ (pc = "run" /\ pc' = "idle"
              /\ \A k \in 1..Len(runlog) : Clean(runlog[k])) =>
             /\ Len(runlog) = Len(analysis_definitions)
             /\ preview_df' = Some(temp_df)]_vars

\* a run of a lookup and then a sum of two columns, both succeeding, has
\* stored the table with both new columns
C11_Witness ==
    /\ pc = "idle"
    /\ preview_df # None
    /\ Len(runlog) = 2
    /\ \A k \in 1..2 : Clean(runlog[k])
    /\ runlog[1].def.operation_type = "VLOOKUP"
    /\ runlog[2].def.operation_type = "MATH"
    /\ preview_df[1].cols = <<"id", "val", "nm", "sum">>
    /\ preview_df[1] = ret[1].df

\* C12: every step of a run that failed (an exception, or an error its
\* evaluator or apply_analysis reported) has a message that gives the step's
\* 1-based index and its name.
C12_FailureNamesStep ==
    \A k \in 1..Len(runlog) :
        ~Clean(runlog[k]) =>
            \E m \in Range(messages) :
                m.step = k /\ m.name = runlog[k].def.new_col_name

\* whether the condition of the IF step holds for row i of the current
\* table: both sides have a value and the operator holds between them
IfHolds(i) ==
    LET a == T.data[D.if_col][i]
        b == IF D.if_compare_type = "Absolute Value" THEN attempt_cast(D.if_value)
             ELSE T.data[D.if_compare_col][i]
    IN  ~IsNull(a) /\ ~IsNull(b) /\ Holds(D.if_operator, a, b)

\* C13: after a successful IF step column new_col_name holds, in every row,
\* value_if_true (the literal as a number if it is one, or as the text
\* given) where the condition holds and value_if_false where it does not or
\* is null; the other columns and the row count are as before.
C13_IfWritesBranchValues ==
    (Dispatched("IF") /\ Succeeded) =>
        /\ OnlyColumnChanged(D.new_col_name)
        /\ \A i \in 1..Height(T) :
              R.data[D.new_col_name][i] \in
                  IF IfHolds(i)
                  THEN {attempt_cast(D.value_if_true), Str(D.value_if_true)}
                  ELSE {attempt_cast(D.value_if_false), Str(D.value_if_false)}

\* C14: a preview there is was stored by a run over the worksheet that is
\* selected now, of the file that is active now; neither changes during a
\* run; another file drops the preview and the steps, another main worksheet
\* drops the preview.
C14_PreviewOfCurrentSheet ==
    [][/\ preview_df' # None =>
             preview_src' = Some([file |-> active_file_hash', sheet |-> main_df_name'])
       /\ (pc = "run" \/ pc' = "run") =>
             UNCHANGED <<active_file_hash, main_df_name>>
       /\ active_file_hash' # active_file_hash =>
             preview_df' = None /\ analysis_definitions' = <<>>
       /\ main_df_name' # main_df_name => preview_df' = None]_vars

\* a preview of the second worksheet of the second file, with a step added
\* since the run that stored it
C14_Witness ==
    /\ pc = "idle"
    /\ preview_df # None
    /\ active_file_hash = "f2"
    /\ main_df_name = "ref"
    /\ preview_src = Some([file |-> "f2", sheet |-> "ref"])
    /\ HasCol(preview_df[1], "rid")
    /\ Len(analysis_definitions) = 2
    /\ runlog = <<>>

\* C15: removing a step leaves the other steps as they were, in their
\* order: the list after the removal is the list before it without one of
\* its entries.
C15_RemoveKeepsOtherSteps ==
    [][(/\ Len(analysis_definitions') = Len(analysis_definitions) - 1
        /\ active_file_hash' = active_file_hash) =>
           \E i \in 1..Len(analysis_definitions) :
               analysis_definitions' = Popped(analysis_definitions, i)]_vars

====
